---- MODULE Spec2Model ----
(***************************************************************************)
(* Model of the GET /books endpoint of the Project Gutenberg Books API     *)
(* (src/main.py): query-parameter parsing, the filter composition, the     *)
(* DISTINCT / count / ORDER BY / OFFSET / LIMIT pipeline and the per-      *)
(* request database session.                                               *)
(*                                                                         *)
(* Strings are sequences of one-character strings, so that splitting,      *)
(* trimming, lower-casing and SQL LIKE are computed character by           *)
(* character.                                                              *)
(***************************************************************************)
EXTENDS Integers, Sequences, FiniteSets, TLC

(***************************************************************************)
(* Bounds of the model.                                                    *)
(***************************************************************************)
MaxBooks == 3       \* rows of books_book present in the store
MaxPage == 2        \* largest page number a client asks for directly
MaxPageSize == 2    \* largest page_size a client asks for
MaxParams == 2      \* filter parameters present in one query string
NumRequests == 2    \* concurrent requests of the session model

(***************************************************************************)
(* Program constants: Query(1, ge=1) and Query(25, ge=1, le=100).          *)
(***************************************************************************)
PageMin == 1
PageSizeMin == 1
PageSizeMax == 100

(***************************************************************************)
(* Python None / SQL NULL.  No string of the model equals it: strings are  *)
(* sequences of one-character strings.                                     *)
(***************************************************************************)
None == <<"None">>

Whitespace == {" "}
Digits == {"0", "1", "2", "3", "4", "5", "6", "7", "8", "9"}

\* Python truthiness of an Optional[str]: None and "" are falsy.
Truthy(value) == value # None /\ value # <<>>

(***************************************************************************)
(* str.split(','), str.strip() and parse_comma_separated.                  *)
(***************************************************************************)
RECURSIVE Split(_, _)
Split(s, sep) ==
    IF \A i \in 1..Len(s) : s[i] # sep
    THEN <<s>>
    ELSE LET i == CHOOSE k \in 1..Len(s) :
                      s[k] = sep /\ \A j \in 1..(k - 1) : s[j] # sep
         IN  <<SubSeq(s, 1, i - 1)>> \o Split(SubSeq(s, i + 1, Len(s)), sep)

RECURSIVE LStrip(_)
LStrip(s) == IF s # <<>> /\ Head(s) \in Whitespace THEN LStrip(Tail(s)) ELSE s

RECURSIVE RStrip(_)
RStrip(s) ==
    IF s # <<>> /\ s[Len(s)] \in Whitespace
    THEN RStrip(SubSeq(s, 1, Len(s) - 1))
    ELSE s

Strip(s) == RStrip(LStrip(s))

NonEmpty(s) == s # <<>>

parse_comma_separated(value) ==
    IF ~Truthy(value)
    THEN <<>>
    ELSE LET parts == Split(value, ",")
             stripped == [i \in 1..Len(parts) |-> Strip(parts[i])]
         IN  SelectSeq(stripped, NonEmpty)

(***************************************************************************)
(* int(bid) on a stripped token.  The tokens of the model are made of      *)
(* digits and letters; a token that is not all digits raises ValueError.   *)
(***************************************************************************)
IsIntLiteral(tok) == tok # <<>> /\ \A i \in 1..Len(tok) : tok[i] \in Digits

DigitValue(c) ==
    CASE c = "0" -> 0 [] c = "1" -> 1 [] c = "2" -> 2 [] c = "3" -> 3
      [] c = "4" -> 4 [] c = "5" -> 5 [] c = "6" -> 6 [] c = "7" -> 7
      [] c = "8" -> 8 [] c = "9" -> 9

RECURSIVE IntOf(_)
IntOf(tok) ==
    IF tok = <<>> THEN 0
    ELSE 10 * IntOf(SubSeq(tok, 1, Len(tok) - 1)) + DigitValue(tok[Len(tok)])

(***************************************************************************)
(* func.lower and the SQL LIKE operator ('%' any run, '_' any one          *)
(* character).  The model has no backslash, LIKE's escape character.       *)
(***************************************************************************)
UpperCase ==
    <<"A", "B", "C", "D", "E", "F", "G", "H", "I", "J", "K", "L", "M",
      "N", "O", "P", "Q", "R", "S", "T", "U", "V", "W", "X", "Y", "Z">>

LowerCase ==
    <<"a", "b", "c", "d", "e", "f", "g", "h", "i", "j", "k", "l", "m",
      "n", "o", "p", "q", "r", "s", "t", "u", "v", "w", "x", "y", "z">>

UpperToLower ==
    [c \in {UpperCase[i] : i \in 1..Len(UpperCase)} |->
        LowerCase[CHOOSE i \in 1..Len(UpperCase) : UpperCase[i] = c]]

LowerChar(c) == IF c \in DOMAIN UpperToLower THEN UpperToLower[c] ELSE c

Lower(s) == [i \in 1..Len(s) |-> LowerChar(s[i])]

RECURSIVE Like(_, _)
Like(s, p) ==
    IF p = <<>> THEN s = <<>>
    ELSE IF Head(p) = "%"
         THEN Like(s, Tail(p)) \/ (s # <<>> /\ Like(Tail(s), p))
         ELSE /\ s # <<>>
              /\ (Head(p) = "_" \/ Head(p) = Head(s))
              /\ Like(Tail(s), Tail(p))

\* f"%{t}%"
Pattern(t) == <<"%">> \o t \o <<"%">>

\* func.lower(column).like(func.lower(pattern)); NULL LIKE ... is NULL: no match.
LowerLike(column, t) ==
    /\ column # None
    /\ Like(Lower(column), Lower(Pattern(t)))

(***************************************************************************)
(* The store: the tables of the schema.  The rows of books_book present    *)
(* in the store vary (variable books); the related tables hold the rows    *)
(* below, and an association row counts only while its book is present.    *)
(***************************************************************************)
CatalogIds == 1..4

\* books_book.title (nullable) and books_book.download_count
Book_title ==
    [b \in CatalogIds |->
        CASE b = 1 -> <<"D", "a", "r", "k">>
          [] b = 2 -> <<"d", "u", "s", "k">>
          [] b = 3 -> None
          [] b = 4 -> <<"5", "%">>]

Book_download_count ==
    [b \in CatalogIds |->
        CASE b = 1 -> 5 [] b = 2 -> 5 [] b = 3 -> 2 [] b = 4 -> 0]

\* books_language.code and books_book_languages
Language_code == [l \in 1..2 |-> IF l = 1 THEN <<"e", "n">> ELSE <<"f", "r">>]

book_languages == {<<1, 1>>, <<1, 2>>, <<2, 1>>, <<4, 2>>}

\* books_format: mime_type and book_id (a Format belongs to one Book)
Format_mime_type ==
    [f \in 1..5 |-> IF f \in {2, 5} THEN <<"p", "d", "f">> ELSE <<"t", "x", "t">>]

Format_book_id ==
    [f \in 1..5 |-> CASE f \in {1, 2} -> 1 [] f \in {3, 4} -> 2 [] f = 5 -> 3]

\* books_subject.name and books_book_subjects
Subject_name ==
    [s \in 1..2 |-> IF s = 1 THEN <<"W", "a", "r">> ELSE <<"S", "e", "a", "s">>]

book_subjects == {<<1, 1>>, <<2, 1>>, <<4, 2>>}

\* books_bookshelf.name and books_book_bookshelves
Bookshelf_name ==
    [h \in 1..2 |-> IF h = 1 THEN <<"S", "e", "a">> ELSE <<"W", "a", "r", "s">>]

book_bookshelves == {<<3, 1>>, <<1, 2>>}

\* books_author.name and books_book_authors
Author_name ==
    [a \in 1..2 |-> IF a = 1 THEN <<"P", "o", "e">> ELSE <<"S", "a", "n", "d">>]

book_authors == {<<1, 1>>, <<2, 1>>, <<3, 2>>}

Range(s) == {s[i] : i \in 1..Len(s)}

(***************************************************************************)
(* The request: the eight query parameters of get_books.                   *)
(***************************************************************************)
FilterNames == {"book_id", "language", "mime_type", "topic", "author", "title"}

NoRequest ==
    [book_id |-> None, language |-> None, mime_type |-> None, topic |-> None,
     author |-> None, title |-> None, page |-> 0, page_size |-> 0]

(***************************************************************************)
(* query.join(Book.languages) / query.join(Book.formats): the FROM clause. *)
(* A join is added only when its parameter is truthy; a row of the query   *)
(* is a book with one joined language row and one joined format row (0     *)
(* where the table is not joined).                                         *)
(***************************************************************************)
JoinedLanguages(b, req) ==
    IF Truthy(req.language)
    THEN {l \in DOMAIN Language_code : <<b, l>> \in book_languages}
    ELSE {0}

JoinedFormats(b, req) ==
    IF Truthy(req.mime_type)
    THEN {f \in DOMAIN Format_book_id : Format_book_id[f] = b}
    ELSE {0}

JoinRows(bs, req) ==
    UNION {{[book |-> b, language |-> l, format |-> f] :
                l \in JoinedLanguages(b, req), f \in JoinedFormats(b, req)} :
           b \in bs}

(***************************************************************************)
(* The filters list and the condition each entry puts on a row.            *)
(***************************************************************************)
\* [int(bid) for bid in parse_comma_separated(book_id)] raises ValueError
RaisesValueError(req) ==
    /\ Truthy(req.book_id)
    /\ \E tok \in Range(parse_comma_separated(req.book_id)) : ~IsIntLiteral(tok)

\* the subquery of the subjects / bookshelves whose lowered name is LIKE the pattern
subject_match(t) == {s \in DOMAIN Subject_name : LowerLike(Subject_name[s], t)}

bookshelf_match(t) == {h \in DOMAIN Bookshelf_name : LowerLike(Bookshelf_name[h], t)}

\* the token lists get_books parses, and per topic token its two subqueries
ParsedFilters(req) ==
    LET topics == parse_comma_separated(req.topic)
    IN  [book_ids |-> {IntOf(tok) : tok \in Range(parse_comma_separated(req.book_id))},
         languages |-> Range(parse_comma_separated(req.language)),
         mime_types |-> Range(parse_comma_separated(req.mime_type)),
         topic_conditions |->
             [i \in 1..Len(topics) |->
                 [subject_match |-> subject_match(topics[i]),
                  bookshelf_match |-> bookshelf_match(topics[i])]],
         authors |-> parse_comma_separated(req.author),
         titles |-> parse_comma_separated(req.title)]

\* Book.id.in_(book_ids); IN of an empty list is false
BookIdCondition(row, book_id_list) == row.book \in book_id_list

\* Language.code.in_(languages)
LanguageCondition(row, languages) == Language_code[row.language] \in languages

\* Format.mime_type.in_(mime_types)
MimeTypeCondition(row, mime_types) == Format_mime_type[row.format] \in mime_types

\* or_(Book.subjects.any(...), Book.bookshelves.any(...)), ORed over the tokens
TopicCondition(row, topic_conditions) ==
    \E i \in 1..Len(topic_conditions) :
        \/ \E s \in topic_conditions[i].subject_match :
              <<row.book, s>> \in book_subjects
        \/ \E h \in topic_conditions[i].bookshelf_match :
              <<row.book, h>> \in book_bookshelves

\* Book.authors.any(lower(Author.name) LIKE lower(pattern)), ORed over the tokens
AuthorCondition(row, authors) ==
    \E i \in 1..Len(authors) :
        \E a \in DOMAIN Author_name :
            <<row.book, a>> \in book_authors /\ LowerLike(Author_name[a], authors[i])

\* lower(Book.title) LIKE lower(pattern), ORed over the tokens
TitleCondition(row, titles) ==
    \E i \in 1..Len(titles) : LowerLike(Book_title[row.book], titles[i])

\* the names of the conditions appended to `filters`: the first three whenever
\* the parameter is truthy, the last three only if a condition was built
filters(req) ==
    {n \in {"book_id", "language", "mime_type"} : Truthy(req[n])}
    \cup {n \in {"topic", "author", "title"} :
            Truthy(req[n]) /\ parse_comma_separated(req[n]) # <<>>}

\* and_(*filters)
Where(row, active, parsed) ==
    /\ "book_id" \in active => BookIdCondition(row, parsed.book_ids)
    /\ "language" \in active => LanguageCondition(row, parsed.languages)
    /\ "mime_type" \in active => MimeTypeCondition(row, parsed.mime_types)
    /\ "topic" \in active => TopicCondition(row, parsed.topic_conditions)
    /\ "author" \in active => AuthorCondition(row, parsed.authors)
    /\ "title" \in active => TitleCondition(row, parsed.titles)

\* query.filter(...) over the joined rows
FilteredRows(bs, req) ==
    LET active == filters(req)
        parsed == ParsedFilters(req)
    IN  {row \in JoinRows(bs, req) : Where(row, active, parsed)}

(***************************************************************************)
(* query.distinct(): the selected columns are those of Book, so DISTINCT   *)
(* keeps one row per book whatever joined rows it matched through.         *)
(***************************************************************************)
NoDistinct(rows) == rows

Distinct(rows) == {[book |-> row.book, language |-> 0, format |-> 0] : row \in rows}

\* query.count()
Count(rows) == Cardinality(rows)

(***************************************************************************)
(* order_by(Book.download_count.desc()): every order of the rows that is   *)
(* non-increasing in download_count.  The query names no second sort key,  *)
(* so the store may produce any of them, and a different one each time.    *)
(***************************************************************************)
RECURSIVE OrderBy(_)
OrderBy(rows) ==
    IF rows = {} THEN {<<>>}
    ELSE LET top == {x \in rows : \A y \in rows :
                        Book_download_count[x.book] >= Book_download_count[y.book]}
         IN  UNION {{<<x>> \o rest : rest \in OrderBy(rows \ {x})} : x \in top}

Min(a, b) == IF a <= b THEN a ELSE b

\* offset = (page - 1) * page_size
Offset(page, page_size) == (page - 1) * page_size

\* query.offset(offset).limit(page_size).all()
OffsetLimit(ordered, offset, limit) ==
    SubSeq(ordered, offset + 1, Min(offset + limit, Len(ordered)))

\* total_pages = (total_count + page_size - 1) // page_size
TotalPagesFloor(total_count, page_size) == total_count \div page_size

TotalPages(total_count, page_size) == (total_count + page_size - 1) \div page_size

(***************************************************************************)
(* The response.  status 200 carries BooksListResponse (results holds the  *)
(* ids of the BookResponse objects, in order); an exception that leaves    *)
(* get_books is answered by the framework with status 500 and no body of   *)
(* that shape.                                                             *)
(***************************************************************************)
NoResponse == [status |-> 0, count |-> 0, results |-> <<>>, page |-> 0, total_pages |-> 0]

InternalServerError ==
    [status |-> 500, count |-> 0, results |-> <<>>, page |-> 0, total_pages |-> 0]

\* the store call that raises while a request is served, if any
Faults == {"none", "count", "all"}

\* the query after .filter(...).distinct(); none is built after ValueError
BuildQuery(bs, req) ==
    IF RaisesValueError(req) THEN {}
    ELSE Distinct(FilteredRows(bs, req))

(***************************************************************************)
(* get_books: db = SessionLocal(); try: ... finally: db.close().           *)
(* Gives the response and the calls made on the session, given the rows    *)
(* of the built query, the order the store returns them in when sorted,    *)
(* and the store call that raises.  No except clause catches anything:     *)
(* every exception leaves through the finally.                             *)
(***************************************************************************)
get_books(req, query, ordered, storeFault) ==
    IF RaisesValueError(req)
    THEN [response |-> InternalServerError,
          calls |-> <<"SessionLocal", "close">>]
    ELSE IF storeFault = "count"
    THEN [response |-> InternalServerError,
          calls |-> <<"SessionLocal", "count", "close">>]
    ELSE IF storeFault = "all"
    THEN [response |-> InternalServerError,
          calls |-> <<"SessionLocal", "count", "all", "close">>]
    ELSE LET total_count == Count(query)
             offset == Offset(req.page, req.page_size)
             page_rows == OffsetLimit(ordered, offset, req.page_size)
         IN  [response |->
                 [status |-> 200,
                  count |-> total_count,
                  results |-> [i \in 1..Len(page_rows) |-> page_rows[i].book],
                  page |-> req.page,
                  total_pages |-> TotalPages(total_count, req.page_size)],
              calls |-> <<"SessionLocal", "count", "all", "close">>]

(***************************************************************************)
(* Query strings the clients send.                                         *)
(***************************************************************************)
RawInputs ==
    [n \in FilterNames |->
        CASE n = "book_id" ->
                {<<>>, <<",">>, <<"1">>, <<" ", "2", " ", ",", "3">>,
                 <<"a", "b", "c">>, <<"1", ",", "a", "b", "c">>}
          [] n = "language" ->
                {<<>>, <<",">>, <<"e", "n">>, <<"e", "n", ",", " ", "f", "r">>}
          [] n = "mime_type" ->
                {<<",">>, <<"t", "x", "t">>,
                 <<"p", "d", "f", ",", "t", "x", "t">>}
          [] n = "topic" ->
                {<<" ", ",", " ">>, <<"s", "e", "a">>,
                 <<"x", ",", "W", "A", "R">>, <<"_">>}
          [] n = "author" ->
                {<<",">>, <<"p", "o", "e">>, <<"s", "_", "n", "d">>}
          [] n = "title" ->
                {<<>>, <<" ", ",", " ">>, <<"d", "a", "r", "k">>,
                 <<"x", ",", "%">>, <<"d", "_", "s", "k">>}]

\* the filter parameters present in a query string
Supplied(req) == {n \in FilterNames : req[n] # None}

\* Query(1, ge=1) and Query(25, ge=1, le=100): what the HTTP layer lets through
ValidPaging(page, page_size) ==
    /\ page >= PageMin
    /\ page_size >= PageSizeMin
    /\ page_size <= PageSizeMax

VARIABLES
    books,      \* ids of the rows of books_book
    pc,         \* "idle", "received" (request delivered), "responded"
    request,    \* the query parameters of the request being served
    fault,      \* the store call that raised while it was served
    response,   \* the response to it
    calls,      \* the calls get_books made on its session, in order
    previous,   \* the response to the same request, sent before
    pages,      \* results of pages 1..k of the query being paged through
    reqPc,      \* session model: where each concurrent request stands
    reqBookId,  \* session model: the book_id parameter of each request
    raised,     \* session model: the exception each request left with
    db,         \* session model: the session each request holds (0: none)
    sessions    \* session model: the sessions made, with who closed each

vars ==
    <<books, pc, request, fault, response, calls, previous, pages,
      reqPc, reqBookId, raised, db, sessions>>

seqVars == <<books, pc, request, fault, response, calls, previous, pages>>

concVars == <<reqPc, reqBookId, raised, db, sessions>>

Requests == 1..NumRequests

SequentialInit ==
    /\ pc = "idle"
    /\ request = NoRequest
    /\ fault = "none"
    /\ response = NoResponse
    /\ calls = <<>>
    /\ previous = NoResponse
    /\ pages = <<>>

ConcurrentInit ==
    /\ reqPc = [r \in Requests |-> "start"]
    /\ reqBookId = [r \in Requests |-> None]
    /\ raised = [r \in Requests |-> "none"]
    /\ db = [r \in Requests |-> 0]
    /\ sessions = <<>>

Init ==
    /\ books \in {bs \in SUBSET CatalogIds : \E n \in 0..MaxBooks : bs = 1..n}
    /\ SequentialInit
    /\ ConcurrentInit

(***************************************************************************)
(* A client sends GET /books; the HTTP layer validates page and page_size  *)
(* and delivers the parameters to get_books.                               *)
(***************************************************************************)
Receive ==
    /\ pc = "idle"
    /\ \E book_id \in {None} \cup RawInputs["book_id"],
          language \in {None} \cup RawInputs["language"],
          mime_type \in {None} \cup RawInputs["mime_type"],
          topic \in {None} \cup RawInputs["topic"],
          author \in {None} \cup RawInputs["author"],
          title \in {None} \cup RawInputs["title"],
          page \in 0..MaxPage, page_size \in 0..MaxPageSize :
          LET req == [book_id |-> book_id, language |-> language,
                      mime_type |-> mime_type, topic |-> topic,
                      author |-> author, title |-> title,
                      page |-> page, page_size |-> page_size]
          IN  /\ Cardinality(Supplied(req)) <= MaxParams
              /\ ValidPaging(page, page_size)
              /\ request' = req
    /\ pc' = "received"
    /\ UNCHANGED <<books, fault, response, calls, previous, pages, concVars>>

(***************************************************************************)
(* The handler runs, from SessionLocal() to db.close().                    *)
(***************************************************************************)
GetBooks ==
    /\ pc = "received"
    /\ \E query \in {BuildQuery(books, request)} :
       \E ordered \in OrderBy(query), storeFault \in Faults :
          LET out == get_books(request, query, ordered, storeFault)
          IN  /\ fault' = IF RaisesValueError(request) THEN "none" ELSE storeFault
              /\ response' = out.response
              /\ calls' = out.calls
              /\ pages' = IF out.response.status = 200 /\ request.page = Len(pages) + 1
                          THEN Append(pages, out.response.results)
                          ELSE pages
    /\ pc' = "responded"
    /\ UNCHANGED <<books, request, previous, concVars>>

\* the client sends the identical request again
Repeat ==
    /\ pc = "responded"
    /\ response.status = 200
    /\ previous = NoResponse
    /\ previous' = response
    /\ response' = NoResponse
    /\ fault' = "none"
    /\ calls' = <<>>
    /\ pages' = <<>>
    /\ pc' = "received"
    /\ UNCHANGED <<books, request, concVars>>

\* the client, paging through a query from page 1, asks for the next page
NextPage ==
    /\ pc = "responded"
    /\ response.status = 200
    /\ Len(pages) = request.page
    /\ request.page < response.total_pages
    /\ request' = [request EXCEPT !.page = @ + 1]
    /\ previous' = NoResponse
    /\ response' = NoResponse
    /\ fault' = "none"
    /\ calls' = <<>>
    /\ pc' = "received"
    /\ UNCHANGED <<books, pages, concVars>>

\* the client is done with the query
Finish ==
    /\ pc = "responded"
    /\ pc' = "idle"
    /\ request' = NoRequest
    /\ response' = NoResponse
    /\ fault' = "none"
    /\ calls' = <<>>
    /\ previous' = NoResponse
    /\ pages' = <<>>
    /\ UNCHANGED <<books, concVars>>

Next ==
    \/ Receive
    \/ GetBooks
    \/ Repeat
    \/ NextPage
    \/ Finish

Spec == Init /\ [][Next]_vars

(***************************************************************************)
(* The session model: concurrent requests, each stepping through          *)
(* get_books statement by statement.  What the queries return plays no     *)
(* part here; a store call either answers or raises.                       *)
(***************************************************************************)
RawBookIds == {None, <<"1">>, <<"a", "b", "c">>}

\* try: ... finally: db.close() -- where control goes when the body raises
AfterRaiseSkipsFinally == "done"

AfterRaise == "finally"

InitSessions ==
    /\ books = {}
    /\ SequentialInit
    /\ ConcurrentInit

\* the request arrives and db = SessionLocal() makes its session
Acquire(r) ==
    /\ reqPc[r] = "start"
    /\ \E raw \in RawBookIds : reqBookId' = [reqBookId EXCEPT ![r] = raw]
    /\ sessions' = Append(sessions, [owner |-> r, open |-> TRUE, closedBy |-> <<>>])
    /\ db' = [db EXCEPT ![r] = Len(sessions) + 1]
    /\ reqPc' = [reqPc EXCEPT ![r] = "filters"]
    /\ UNCHANGED <<seqVars, raised>>

\* the filters are built; int(bid) raises ValueError on a bad book_id token
BuildFilters(r) ==
    /\ reqPc[r] = "filters"
    /\ IF RaisesValueError([NoRequest EXCEPT !.book_id = reqBookId[r]])
       THEN /\ raised' = [raised EXCEPT ![r] = "ValueError"]
            /\ reqPc' = [reqPc EXCEPT ![r] = AfterRaise]
       ELSE /\ raised' = raised
            /\ reqPc' = [reqPc EXCEPT ![r] = "count"]
    /\ UNCHANGED <<seqVars, reqBookId, db, sessions>>

\* total_count = query.count(): the store answers or raises
RunCount(r) ==
    /\ reqPc[r] = "count"
    /\ \E ok \in BOOLEAN :
          IF ok
          THEN /\ raised' = raised
               /\ reqPc' = [reqPc EXCEPT ![r] = "all"]
          ELSE /\ raised' = [raised EXCEPT ![r] = "StoreError"]
               /\ reqPc' = [reqPc EXCEPT ![r] = AfterRaise]
    /\ UNCHANGED <<seqVars, reqBookId, db, sessions>>

\* books = query.offset(offset).limit(page_size).all(): answers or raises;
\* when it answers the response is built and returned
RunPage(r) ==
    /\ reqPc[r] = "all"
    /\ \E ok \in BOOLEAN :
          IF ok
          THEN /\ raised' = raised
               /\ reqPc' = [reqPc EXCEPT ![r] = "finally"]
          ELSE /\ raised' = [raised EXCEPT ![r] = "StoreError"]
               /\ reqPc' = [reqPc EXCEPT ![r] = AfterRaise]
    /\ UNCHANGED <<seqVars, reqBookId, db, sessions>>

\* finally: db.close()
Close(r) ==
    /\ reqPc[r] = "finally"
    /\ sessions' = [sessions EXCEPT ![db[r]] =
                        [@ EXCEPT !.open = FALSE, !.closedBy = Append(@, r)]]
    /\ reqPc' = [reqPc EXCEPT ![r] = "done"]
    /\ UNCHANGED <<seqVars, reqBookId, raised, db>>

NextSessions ==
    \E r \in Requests :
        \/ Acquire(r)
        \/ BuildFilters(r)
        \/ RunCount(r)
        \/ RunPage(r)
        \/ Close(r)

SpecSessions == InitSessions /\ [][NextSessions]_vars

(***************************************************************************)
(* The properties.  What the documentation means by a filter is written    *)
(* here on its own terms: a literal, case-insensitive substring test, a    *)
(* filter being active when its parameter yields at least one token.       *)
(***************************************************************************)
Tokens(req, n) == parse_comma_separated(req[n])

Contains(s, t) ==
    \E i \in 0..(Len(s) - Len(t)) : SubSeq(s, i + 1, i + Len(t)) = t

ContainsIgnoreCase(s, t) == s # None /\ Contains(Lower(s), Lower(t))

Satisfies(b, req, n) ==
    CASE n = "book_id" ->
            b \in {IntOf(tok) : tok \in Range(Tokens(req, n))}
      [] n = "language" ->
            \E l \in DOMAIN Language_code :
                <<b, l>> \in book_languages /\ Language_code[l] \in Range(Tokens(req, n))
      [] n = "mime_type" ->
            \E f \in DOMAIN Format_book_id :
                Format_book_id[f] = b /\ Format_mime_type[f] \in Range(Tokens(req, n))
      [] n = "topic" ->
            \E t \in Range(Tokens(req, n)) :
                \/ \E sj \in DOMAIN Subject_name :
                      <<b, sj>> \in book_subjects /\ ContainsIgnoreCase(Subject_name[sj], t)
                \/ \E h \in DOMAIN Bookshelf_name :
                      <<b, h>> \in book_bookshelves
                      /\ ContainsIgnoreCase(Bookshelf_name[h], t)
      [] n = "author" ->
            \E t \in Range(Tokens(req, n)) :
                \E a \in DOMAIN Author_name :
                    <<b, a>> \in book_authors /\ ContainsIgnoreCase(Author_name[a], t)
      [] n = "title" ->
            \E t \in Range(Tokens(req, n)) : ContainsIgnoreCase(Book_title[b], t)

ActiveFilters(req) == {n \in FilterNames : Tokens(req, n) # <<>>}

Matching(bs, req) ==
    {b \in bs : \A n \in ActiveFilters(req) : Satisfies(b, req, n)}

Answered == pc = "responded" /\ response.status = 200

\* the books of the rows the query selects, and of its rows before DISTINCT
QueryBooks(bs, req) == {row.book : row \in BuildQuery(bs, req)}

NoDuplicates(seq) == \A i, j \in 1..Len(seq) : seq[i] = seq[j] => i = j

RECURSIVE Concat(_)
Concat(seqs) == IF seqs = <<>> THEN <<>> ELSE Head(seqs) \o Concat(Tail(seqs))

\* C1: for a request whose supplied filters each have at least one token, the
\* books counted and returned are exactly those that satisfy every active
\* filter (AND across categories, OR across tokens); all books with no filter.
C1_ExactlyTheMatchingBooks ==
    (Answered /\ \A n \in Supplied(request) : Tokens(request, n) # <<>>)
        => /\ Range(response.results) \subseteq Matching(books, request)
           /\ response.count = Cardinality(Matching(books, request))

\* C2: no book id appears twice in results, and count is the number of
\* distinct books among the rows the joins and filters select, however many
\* joined Language or Format rows a book matches through.
C2_DistinctBooks ==
    Answered
        => /\ NoDuplicates(response.results)
           /\ response.count =
                 Cardinality({row.book : row \in FilteredRows(books, request)})

\* a returned book that matched through two or more joined rows
C2_Witness ==
    /\ Answered
    /\ \E b \in Range(response.results) :
          Cardinality({row \in FilteredRows(books, request) : row.book = b}) >= 2

\* C3: the results of pages 1..total_pages of one query, concatenated, hold
\* every matching book exactly once, in non-increasing download_count order.
C3_PagesPartitionTheMatches ==
    (Answered /\ Len(pages) = request.page /\ request.page >= response.total_pages)
        => LET all == Concat(pages)
           IN  /\ NoDuplicates(all)
               /\ Range(all) = QueryBooks(books, request)
               /\ \A i \in 1..(Len(all) - 1) :
                     Book_download_count[all[i]] >= Book_download_count[all[i + 1]]

\* C4: the same request sent twice to the unchanged store gets the same
\* results in the same order.
C4_RepeatableOrder ==
    (Answered /\ previous.status = 200)
        => response.results = previous.results

\* C5: a book_id token that is no integer is answered with a client error,
\* with no result list, before any session is made or query run.
C5_BadBookIdIsClientError ==
    (pc = "responded" /\ RaisesValueError(request))
        => /\ response.status \in 400..499
           /\ response.results = <<>>
           /\ calls = <<>>

\* C6: a supplied parameter that yields no token is not applied: count and
\* the returned books are those of the request without that parameter.
C6_BlankParameterIsNoFilter ==
    Answered
        => \A n \in Supplied(request) :
              Tokens(request, n) = <<>>
                  => LET without == [request EXCEPT ![n] = None]
                     IN  /\ response.count = Count(BuildQuery(books, without))
                         /\ Range(response.results) \subseteq QueryBooks(books, without)

\* C7: while the store answers, total_pages is ceil(count / page_size), 0 when
\* count is 0; a page past the last one is answered, not refused, with empty
\* results and the count and total_pages of page 1.
C7_TotalPagesAndPastTheEnd ==
    (pc = "responded" /\ ~RaisesValueError(request) /\ fault = "none")
        => /\ response.status = 200
           /\ response.total_pages * request.page_size >= response.count
           /\ (response.total_pages - 1) * request.page_size < response.count
           /\ (response.count = 0 => response.total_pages = 0)
           /\ Offset(request.page, request.page_size) >= response.count
                 => LET first == [request EXCEPT !.page = 1]
                        count1 == Count(BuildQuery(books, first))
                    IN  /\ response.results = <<>>
                        /\ response.count = count1
                        /\ response.total_pages = TotalPages(count1, first.page_size)

\* a page past the last one of a non-empty result whose count is no multiple
\* of page_size
C7_Witness ==
    /\ Answered
    /\ response.count > 0
    /\ response.count % request.page_size # 0
    /\ Offset(request.page, request.page_size) >= response.count

\* C8: with only a title filter, the books counted and returned are those
\* whose title is not null and contains, ignoring case, one of the tokens as
\* a literal substring, whatever characters the token holds.
C8_TitleIsLiteralSubstring ==
    (Answered /\ Supplied(request) = {"title"} /\ Tokens(request, "title") # <<>>)
        => LET expected == {b \in books : Satisfies(b, request, "title")}
           IN  /\ response.count = Cardinality(expected)
               /\ Range(response.results) \subseteq expected

\* C9: with only a topic filter, the books counted and returned are those
\* with an associated Subject or an associated Bookshelf whose name contains,
\* ignoring case, one of the tokens.
C9_TopicIsSubjectOrBookshelf ==
    (Answered /\ Supplied(request) = {"topic"} /\ Tokens(request, "topic") # <<>>)
        => LET expected == {b \in books : Satisfies(b, request, "topic")}
           IN  /\ response.count = Cardinality(expected)
               /\ Range(response.results) \subseteq expected

\* C10: a request that has completed closed the session it acquired, exactly
\* once, whichever way it left get_books; no request closes another's
\* session; once every request has completed no session is open.
C10_SessionClosedOnce ==
    /\ \A i \in 1..Len(sessions) :
          /\ Len(sessions[i].closedBy) <= 1
          /\ Range(sessions[i].closedBy) \subseteq {sessions[i].owner}
          /\ sessions[i].open <=> sessions[i].closedBy = <<>>
          /\ db[sessions[i].owner] = i
    /\ \A r \in Requests :
          reqPc[r] = "done"
              => /\ db[r] \in 1..Len(sessions)
                 /\ sessions[db[r]].closedBy = <<r>>
    /\ (\A r \in Requests : reqPc[r] = "done")
          => \A i \in 1..Len(sessions) : ~sessions[i].open

\* every request has completed, one after ValueError and one after a store error
C10_Witness ==
    /\ \A r \in Requests : reqPc[r] = "done"
    /\ \E r \in Requests : raised[r] = "ValueError"
    /\ \E r \in Requests : raised[r] = "StoreError"

====
